---- MODULE Spec2Model ----
(***************************************************************************)
(* Model of the API rate limiting service (src/index.js): the in-memory    *)
(* client store, the sliding-window decision of checkRateLimit, the admin  *)
(* handlers and the periodic cleanup callback.                             *)
(*                                                                         *)
(* Node runs every handler and the timer callback to completion on one     *)
(* thread, so each of them is one atomic action.  Date.now() is read       *)
(* separately by checkRateLimit (line 96), by the cleanup callback (line   *)
(* 312) and by every call of pruneOldRequests (line 48); the clock may     *)
(* advance between two reads of one handler by up to MaxSkew.              *)
(***************************************************************************)
EXTENDS Integers, Sequences, FiniteSets, TLC

(***************************************************************************)
(* Configuration (src/index.js:15-18), scaled down so that every case is   *)
(* explored exhaustively.  The code's values are WINDOW_MS = 60000,        *)
(* MAX_REQUESTS = 10, BAN_THRESHOLD = 3, BAN_DURATION_MS = 300000 and the  *)
(* literal 1000 (milliseconds per second) of the resetIn computations.     *)
(* The scaling keeps BAN_DURATION_MS > WINDOW_MS > MS_PER_SEC > 1, as in   *)
(* the code.                                                               *)
(***************************************************************************)
WINDOW_MS == 3

MAX_REQUESTS == 2

BAN_THRESHOLD == 2

BAN_DURATION_MS == 4

MS_PER_SEC == 2

\* The clock runs from 1 to MaxTime.
MaxTime == 6

\* The most the clock advances between two Date.now() reads of one handler.
MaxSkew == 1

\* Client keys (IP addresses).
Keys == {"a", "b"}

\* Names of the properties every object inherits from Object.prototype.
\* clientStore is a plain object (line 31), so clientStore[name] yields the
\* inherited value, which is truthy and is no record, as long as the store
\* has no property of its own under that name.
InheritedNames == {"constructor"}

\* Client keys as getClientKey returns them: the first entry of the
\* X-Forwarded-For header, whatever the client wrote there.
AnyKeys == {"a"} \cup InheritedNames

VARIABLES
    clientStore,  \* the object clientStore: key -> record (src/index.js:31)
    keyOrder,     \* the property enumeration order of clientStore (for .. in)
    clock,        \* the value Date.now() returns
    last,         \* the operation performed last: its input, the record it
                  \* found and what it returned
    admitted,     \* history: per key, the timestamps of the Allowed decisions
                  \* that can still share a window with a later one
    banAt,        \* history: per key, when its running ban was activated
    retryAt,      \* history: per key, the instant the last denial said to
                  \* retry at, while only sweeps touched the key since
    burst         \* history: per key, the evaluate calls made since the key
                  \* had no record, within one window of the first

vars == <<clientStore, keyOrder, clock, last, admitted, banAt, retryAt, burst>>

----------------------------------------------------------------------------
(* Helpers *)

\* The store has a property of its own under k: a record.
Has(store, k) == k \in DOMAIN store

\* clientStore[k] yields a value inherited from Object.prototype.
Inherited(store, k) == k \in InheritedNames /\ ~Has(store, k)

\* clientStore[k] is truthy (the test !clientStore[clientKey] fails).
Truthy(store, k) == Has(store, k) \/ Inherited(store, k)

\* Variant of Put that replaces the store by one holding k alone.
PutAlone(store, k, r) == [x \in {k} |-> r]

\* clientStore[k] = r
Put(store, k, r) ==
    [x \in (DOMAIN store) \cup {k} |-> IF x = k THEN r ELSE store[x]]

\* delete clientStore[k]
Del(store, k) == [x \in (DOMAIN store) \ {k} |-> store[x]]

\* Math.ceil(x / d) for an integer x and d > 0.
Ceil(x, d) == -((-x) \div d)

\* Variant of Fresh that keeps a timestamp equal to the cutoff.
FreshGe(t, cutoff) == t >= cutoff

\* The test of pruneOldRequests' loop: record.requests[i] > cutoff.
Fresh(t, cutoff) == t > cutoff

\* Variant of pruneOldRequests that forgets the violations of a record it
\* leaves without requests.
pruneOldRequestsDecay(record, nowv) ==
    LET kept == SelectSeq(record.requests,
                          LAMBDA t : Fresh(t, nowv - WINDOW_MS))
    IN [record EXCEPT !.requests = kept,
                      !.violations = IF Len(kept) = 0 THEN 0 ELSE @]

\* pruneOldRequests, reading the clock as nowv.
pruneOldRequests(record, nowv) ==
    [record EXCEPT !.requests =
        SelectSeq(@, LAMBDA t : Fresh(t, nowv - WINDOW_MS))]

initRecord ==
    [requests |-> <<>>, violations |-> 0, banned |-> FALSE, bannedUntil |-> 0]

----------------------------------------------------------------------------
(* Rate limiter core *)

\* Variant of BanActive under which the ban still holds at bannedUntil.
BanActiveLe(record, current) ==
    record.banned /\ current <= record.bannedUntil

\* record.banned && current < record.bannedUntil
BanActive(record, current) ==
    record.banned /\ current < record.bannedUntil

\* Variant of WindowExhausted that admits one request more.
WindowExhaustedGt(count) == count > MAX_REQUESTS

\* count >= MAX_REQUESTS
WindowExhausted(count) == count >= MAX_REQUESTS

\* Variant of BanReached that bans one violation later.
BanReachedGt(violations) == violations > BAN_THRESHOLD

\* record.violations >= BAN_THRESHOLD
BanReached(violations) == violations >= BAN_THRESHOLD

\* Variant of BanEnd that leaves the duration out.
BanEndNow(current) == current

\* Variant of BanEnd that lifts the ban one millisecond early.
BanEndShort(current) == current + BAN_DURATION_MS - 1

\* record.bannedUntil = current + BAN_DURATION_MS
BanEnd(current) == current + BAN_DURATION_MS

\* Variant of WindowResetIn that rounds down (Math.floor).
WindowResetInFloor(oldest, current) ==
    (oldest + WINDOW_MS - current) \div MS_PER_SEC

\* Math.ceil((oldest + WINDOW_MS - current) / 1000)
WindowResetIn(oldest, current) ==
    Ceil(oldest + WINDOW_MS - current, MS_PER_SEC)

\* Variant of BanResetIn that rounds down (Math.floor).
BanResetInFloor(record, current) ==
    (record.bannedUntil - current) \div MS_PER_SEC

\* Math.ceil((record.bannedUntil - current) / 1000)
BanResetIn(record, current) ==
    Ceil(record.bannedUntil - current, MS_PER_SEC)

\* record.requests[0] || current
OldestOr(requests, current) ==
    IF Len(requests) = 0 \/ requests[1] = 0 THEN current ELSE requests[1]

\* The object checkRateLimit returns; violations is -1 where the object
\* has no such property.
Decision(allowed, status, remaining, resetIn, violations) ==
    [allowed |-> allowed, status |-> status, remaining |-> remaining,
     resetIn |-> resetIn, violations |-> violations]

\* checkRateLimit returned nothing: it threw a TypeError.
Thrown == Decision(FALSE, 0, -1, -1, -1)

\* Variant of Remaining that counts before the push.
RemainingStale(count) == MAX_REQUESTS - count + 1

\* MAX_REQUESTS - record.requests.length, after the push.
Remaining(count) == MAX_REQUESTS - count

\* checkRateLimit(clientKey) on the store, where the function reads the
\* clock as current and its call of pruneOldRequests reads it as pruneNow.
\* The store after it and the decision it returns.  When clientStore[clientKey]
\* is an inherited value, line 91 creates no record, record.banned is
\* undefined (line 99 is skipped) and pruneOldRequests throws on
\* record.requests.length (line 51), before anything is written.
checkRateLimit(store, clientKey, current, pruneNow) ==
    IF Inherited(store, clientKey) THEN [store |-> store, result |-> Thrown]
    ELSE
    LET s1 == IF Truthy(store, clientKey) THEN store
              ELSE Put(store, clientKey, initRecord)
        rec0 == s1[clientKey]
    IN
    IF BanActive(rec0, current)
    THEN [store |-> s1,
          result |-> Decision(FALSE, 403, 0, BanResetIn(rec0, current), -1)]
    ELSE
      LET rec1 == IF rec0.banned THEN initRecord ELSE rec0
          rec2 == pruneOldRequests(rec1, pruneNow)
          count == Len(rec2.requests)
      IN
      IF WindowExhausted(count)
      THEN
        LET rec3 == [rec2 EXCEPT !.violations = @ + 1] IN
        IF BanReached(rec3.violations)
        THEN [store |-> Put(s1, clientKey,
                            [rec3 EXCEPT !.banned = TRUE,
                                         !.bannedUntil = BanEnd(current)]),
              result |-> Decision(FALSE, 403, 0,
                                  Ceil(BAN_DURATION_MS, MS_PER_SEC), -1)]
        ELSE [store |-> Put(s1, clientKey, rec3),
              result |-> Decision(FALSE, 429, 0,
                            WindowResetIn(OldestOr(rec3.requests, current),
                                          current),
                            rec3.violations)]
      ELSE
        LET rec3 == [rec2 EXCEPT !.requests = Append(@, current)] IN
        [store |-> Put(s1, clientKey, rec3),
         result |-> Decision(TRUE, 200, Remaining(Len(rec3.requests)),
                             WindowResetIn(rec3.requests[1], current), -1)]

----------------------------------------------------------------------------
(* Route handlers *)

\* handleStatus: tracked_clients and banned_clients.
handleStatus(store) ==
    [tracked_clients |-> Cardinality(DOMAIN store),
     banned_clients |-> Cardinality({k \in DOMAIN store : store[k].banned})]

\* handleAdmin: the snapshot of every record.
handleAdmin(store) ==
    [k \in DOMAIN store |->
        [active_requests_in_window |-> Len(store[k].requests),
         violations |-> store[k].violations,
         banned |-> store[k].banned,
         banned_until |-> IF store[k].banned THEN store[k].bannedUntil
                          ELSE 0]]

\* Variant of handleUnban that only lifts the ban and keeps the rest.
handleUnbanKeep(store, clientKey) ==
    IF ~Has(store, clientKey) THEN [store |-> store, status |-> 404]
    ELSE [store |-> Put(store, clientKey,
                        [store[clientKey] EXCEPT !.banned = FALSE,
                                                 !.bannedUntil = 0]),
          status |-> 200]

\* Variant of handleUnban that writes the record before testing the key.
handleUnbanCreate(store, clientKey) ==
    [store |-> Put(store, clientKey, initRecord),
     status |-> IF Has(store, clientKey) THEN 200 ELSE 404]

\* handleUnban: 404 for an unknown key, else a fresh record.
handleUnban(store, clientKey) ==
    IF ~Truthy(store, clientKey) THEN [store |-> store, status |-> 404]
    ELSE [store |-> Put(store, clientKey, initRecord), status |-> 200]

\* Variant of handleReset that empties the record instead of deleting it.
handleResetKeep(store, clientKey) ==
    IF ~Has(store, clientKey) THEN [store |-> store, status |-> 404]
    ELSE [store |-> Put(store, clientKey, initRecord), status |-> 200]

\* handleReset: 404 for an unknown key, else the key is deleted.
handleReset(store, clientKey) ==
    IF ~Truthy(store, clientKey) THEN [store |-> store, status |-> 404]
    ELSE [store |-> Del(store, clientKey), status |-> 200]

\* Variant of handleResetAll that reports whether, not how many.
handleResetAllOne(store) ==
    [store |-> [x \in {} |-> initRecord],
     count |-> IF DOMAIN store = {} THEN 0 ELSE 1]

\* handleResetAll: the count of the records, and an empty store.
handleResetAll(store) ==
    [store |-> [x \in {} |-> initRecord],
     count |-> Cardinality(DOMAIN store)]

----------------------------------------------------------------------------
(* Periodic cleanup *)

\* Variant of BanExpired that keeps a ban at the instant it runs out.
BanExpiredGt(record, now_ts) ==
    record.banned /\ now_ts > record.bannedUntil

\* record.banned && now_ts >= record.bannedUntil (line 318)
BanExpired(record, now_ts) ==
    record.banned /\ now_ts >= record.bannedUntil

\* Variant of Idle that disregards the violations.
IdleAnyViolations(record) ==
    Len(record.requests) = 0 /\ ~record.banned

\* An idle record: no requests, no violations, not banned (line 326).
Idle(record) ==
    Len(record.requests) = 0 /\ record.violations = 0 /\ ~record.banned

\* The loop of the cleanup callback from the i-th key of order on, where
\* now_ts is the callback's own clock read and pt[i] the clock read of the
\* pruneOldRequests call on the i-th key.
RECURSIVE cleanupFrom(_, _, _, _, _)
cleanupFrom(store, order, i, now_ts, pt) ==
    IF i > Len(order) THEN [store |-> store, removed |-> 0]
    ELSE
      LET key == order[i]
          record == store[key]
      IN
      IF BanExpired(record, now_ts)
      THEN LET r == cleanupFrom(Del(store, key), order, i + 1, now_ts, pt)
           IN [store |-> r.store, removed |-> r.removed + 1]
      ELSE
        LET pruned == pruneOldRequests(record, pt[i]) IN
        IF Idle(pruned)
        THEN LET r == cleanupFrom(Del(store, key), order, i + 1, now_ts, pt)
             IN [store |-> r.store, removed |-> r.removed + 1]
        ELSE cleanupFrom(Put(store, key, pruned), order, i + 1, now_ts, pt)

cleanupInterval(store, order, now_ts, pt) ==
    cleanupFrom(store, order, 1, now_ts, pt)

\* The clock reads of one run of the callback: non-decreasing from now_ts.
PruneTimes(n, now_ts) ==
    {pt \in [1..n -> now_ts..(now_ts + MaxSkew)] :
        \A i \in 1..n : \A j \in i..n : pt[i] <= pt[j]}

----------------------------------------------------------------------------
(* What an operation found and returned *)

\* The record of key k before an operation, if it had one.
Before(store, k) ==
    IF Has(store, k) THEN [present |-> TRUE, rec |-> store[k]]
    ELSE [present |-> FALSE, rec |-> initRecord]

NoDecision == Decision(FALSE, 0, -1, -1, -1)

Response(op, key, now_ts, before, status, d, count) ==
    [op |-> op, key |-> key, now |-> now_ts, before |-> before,
     status |-> status, allowed |-> d.allowed, remaining |-> d.remaining,
     resetIn |-> d.resetIn, violations |-> d.violations, count |-> count]

\* An operation that takes no key found no record of one.
NoBefore == [present |-> FALSE, rec |-> initRecord]

\* What the timer callback and the clock leave: no HTTP response.
NoResponse(op, now_ts, count) ==
    Response(op, "", now_ts, NoBefore, 0, NoDecision, count)

----------------------------------------------------------------------------
(* History variables.  Each specification follows the histories named in   *)
(* its parameter g and leaves the others at their initial value.           *)

\* The admitted timestamps that a request at clk or later can share a
\* window with; at most MAX_REQUESTS + 1 of them are kept.
TrimAdmitted(adm, clk) ==
    LET kept == SelectSeq(adm, LAMBDA t : t > clk - WINDOW_MS) IN
    IF Len(kept) > MAX_REQUESTS + 1 THEN Tail(kept) ELSE kept

NoBan == [at |-> -1, overridden |-> FALSE]

\* A ban activated at b.at is forgotten once b.at + BAN_DURATION_MS passed.
TrimBanAt(b, clk) ==
    IF b.at >= 0 /\ clk >= b.at + BAN_DURATION_MS THEN NoBan ELSE b

\* unban, reset or resetAll acted on a key whose ban was running; the ban is
\* remembered as overridden until the key's next evaluate.
Override(b) == IF b.at >= 0 THEN [b EXCEPT !.overridden = TRUE] ELSE b

NoRetry == [at |-> -1, honoured |-> FALSE]

NoBurst == [first |-> -1, n |-> 0]

\* The history of key k's burst after an evaluate at current that found the
\* store as it is: the call opens a burst when the key has no record, and
\* continues the running one while it lies within one window of its first
\* call and the burst has at most MAX_REQUESTS calls.
NextBurst(b, hadRecord, current) ==
    IF ~hadRecord THEN [first |-> current, n |-> 1]
    ELSE IF b.n >= 1 /\ b.n <= MAX_REQUESTS /\ current < b.first + WINDOW_MS
         THEN [b EXCEPT !.n = @ + 1]
         ELSE NoBurst

----------------------------------------------------------------------------
(* Actions *)

Init ==
    /\ clientStore = [x \in {} |-> initRecord]
    /\ keyOrder = <<>>
    /\ clock = 1
    /\ last = NoResponse("init", 1, 0)
    /\ admitted = [k \in Keys |-> <<>>]
    /\ banAt = [k \in Keys |-> NoBan]
    /\ retryAt = [k \in Keys |-> NoRetry]
    /\ burst = [k \in Keys |-> NoBurst]

\* GET /api from client k: handleSampleAPI calls checkRateLimit(k).  The
\* clock reads current at line 96 and current + d in pruneOldRequests.
Evaluate(k, g) ==
    \E d \in 0..MaxSkew :
      /\ clock + d <= MaxTime
      /\ LET out == checkRateLimit(clientStore, k, clock, clock + d)
             res == out.result
             wasActive == Has(clientStore, k) /\ BanActive(clientStore[k], clock)
         IN
         /\ clientStore' = out.store
         /\ keyOrder' = IF ~Has(clientStore, k) /\ Has(out.store, k)
                        THEN Append(keyOrder, k)
                        ELSE keyOrder
         /\ clock' = clock + d
         /\ last' = Response("evaluate", k, clock, Before(clientStore, k),
                             res.status, res, 0)
         /\ admitted' =
              IF "admitted" \in g
              THEN [x \in Keys |->
                      IF x = k /\ res.allowed
                      THEN TrimAdmitted(Append(admitted[k], clock), clock)
                      ELSE TrimAdmitted(admitted[x], clock)]
              ELSE admitted
         /\ banAt' =
              IF "ban" \in g
              THEN [x \in Keys |->
                      IF x = k /\ res.status = 403 /\ ~wasActive
                      THEN [at |-> clock, overridden |-> FALSE]
                      ELSE IF x = k /\ banAt[k].overridden
                      THEN NoBan
                      ELSE TrimBanAt(banAt[x], clock + d)]
              ELSE banAt
         /\ retryAt' =
              IF "retry" \in g
              THEN [retryAt EXCEPT ![k] =
                      IF res.allowed
                      THEN [at |-> -1,
                            honoured |-> @.at >= 0 /\ clock >= @.at]
                      ELSE [at |-> clock + res.resetIn * MS_PER_SEC,
                            honoured |-> FALSE]]
              ELSE retryAt
         /\ burst' =
              IF "burst" \in g
              THEN [burst EXCEPT ![k] =
                      NextBurst(@, Has(clientStore, k), clock)]
              ELSE burst

\* POST /admin/unban/k
Unban(k, g) ==
    LET out == handleUnban(clientStore, k) IN
    /\ clientStore' = out.store
    /\ keyOrder' = IF ~Has(clientStore, k) /\ Has(out.store, k)
                   THEN Append(keyOrder, k)
                   ELSE keyOrder
    /\ last' = Response("unban", k, clock, Before(clientStore, k),
                        out.status, NoDecision, 0)
    /\ banAt' = IF "ban" \in g THEN [banAt EXCEPT ![k] = Override(@)]
                ELSE banAt
    /\ retryAt' = IF "retry" \in g THEN [retryAt EXCEPT ![k] = NoRetry]
                  ELSE retryAt
    /\ burst' = IF "burst" \in g THEN [burst EXCEPT ![k] = NoBurst]
                ELSE burst
    /\ UNCHANGED <<clock, admitted>>

\* DELETE /admin/reset/k
Reset(k, g) ==
    LET out == handleReset(clientStore, k) IN
    /\ clientStore' = out.store
    /\ keyOrder' = SelectSeq(keyOrder, LAMBDA x : x \in DOMAIN out.store)
    /\ last' = Response("reset", k, clock, Before(clientStore, k),
                        out.status, NoDecision, 0)
    /\ banAt' = IF "ban" \in g THEN [banAt EXCEPT ![k] = Override(@)]
                ELSE banAt
    /\ retryAt' = IF "retry" \in g THEN [retryAt EXCEPT ![k] = NoRetry]
                  ELSE retryAt
    /\ burst' = IF "burst" \in g THEN [burst EXCEPT ![k] = NoBurst]
                ELSE burst
    /\ UNCHANGED <<clock, admitted>>

\* DELETE /admin/reset-all
ResetAll(g) ==
    LET out == handleResetAll(clientStore) IN
    /\ clientStore' = out.store
    /\ keyOrder' = <<>>
    /\ last' = Response("resetAll", "", clock, NoBefore, 200, NoDecision,
                        out.count)
    /\ banAt' = IF "ban" \in g THEN [k \in Keys |-> Override(banAt[k])]
                ELSE banAt
    /\ retryAt' = IF "retry" \in g THEN [k \in Keys |-> NoRetry]
                  ELSE retryAt
    /\ burst' = IF "burst" \in g THEN [k \in Keys |-> NoBurst] ELSE burst
    /\ UNCHANGED <<clock, admitted>>

\* One run of the cleanup timer callback.
Sweep(g) ==
    \E pt \in PruneTimes(Len(keyOrder), clock) :
      LET end == IF Len(keyOrder) = 0 THEN clock ELSE pt[Len(keyOrder)]
          out == cleanupInterval(clientStore, keyOrder, clock, pt)
      IN
      /\ end <= MaxTime
      /\ clientStore' = out.store
      /\ keyOrder' = SelectSeq(keyOrder, LAMBDA x : x \in DOMAIN out.store)
      /\ clock' = end
      /\ last' = NoResponse("sweep", clock, out.removed)
      /\ admitted' = IF "admitted" \in g
                     THEN [k \in Keys |-> TrimAdmitted(admitted[k], end)]
                     ELSE admitted
      /\ banAt' = IF "ban" \in g
                  THEN [k \in Keys |-> TrimBanAt(banAt[k], end)]
                  ELSE banAt
      /\ burst' = IF "burst" \in g
                  THEN [k \in Keys |->
                          IF Has(clientStore, k) /\ ~Has(out.store, k)
                          THEN NoBurst ELSE burst[k]]
                  ELSE burst
      /\ UNCHANGED retryAt

\* Time passes between two handlers.
Tick(g) ==
    /\ clock < MaxTime
    /\ clock' = clock + 1
    /\ last' = NoResponse("tick", clock + 1, 0)
    /\ admitted' = IF "admitted" \in g
                   THEN [k \in Keys |-> TrimAdmitted(admitted[k], clock + 1)]
                   ELSE admitted
    /\ banAt' = IF "ban" \in g
                THEN [k \in Keys |-> TrimBanAt(banAt[k], clock + 1)]
                ELSE banAt
    /\ UNCHANGED <<clientStore, keyOrder, retryAt, burst>>

Next(g) ==
    \/ \E k \in Keys : Evaluate(k, g)
    \/ \E k \in Keys : Unban(k, g)
    \/ \E k \in Keys : Reset(k, g)
    \/ ResetAll(g)
    \/ Sweep(g)
    \/ Tick(g)

\* Every operation, following no history.
Spec == Init /\ [][Next({})]_vars

\* Every operation, following when each ban was activated.
SpecBan == Init /\ [][Next({"ban"})]_vars

\* Every operation, following what each denial said to wait.
SpecRetry == Init /\ [][Next({"retry"})]_vars

\* Every operation, following each new client's first calls.
SpecBurst == Init /\ [][Next({"burst"})]_vars

\* The decision engine and the sweeper alone, without operator overrides,
\* following the admitted requests.
NextEngine(g) ==
    \/ \E k \in Keys : Evaluate(k, g)
    \/ Sweep(g)
    \/ Tick(g)

SpecEngine == Init /\ [][NextEngine({"admitted"})]_vars

\* The exception checkRateLimit threw leaves the request listener (line
\* 254) uncaught: the process has exited.
Exited == last.op = "evaluate" /\ last.status = Thrown.status

\* Every operation, for client keys that may be names inherited from
\* Object.prototype.
NextAnyKey(g) ==
    \/ \E k \in AnyKeys : ~Exited /\ Evaluate(k, g)
    \/ \E k \in AnyKeys : ~Exited /\ Unban(k, g)
    \/ \E k \in AnyKeys : ~Exited /\ Reset(k, g)
    \/ ~Exited /\ ResetAll(g)
    \/ ~Exited /\ Sweep(g)
    \/ ~Exited /\ Tick(g)

SpecAnyKey == Init /\ [][NextAnyKey({})]_vars

----------------------------------------------------------------------------
(* Properties *)

\* The step just taken is an evaluate of key k.
EvaluateStep(k) == last'.op = "evaluate" /\ last'.key = k

\* The record evaluate leaves for a client it has never seen, called at now_ts.
FirstRecord(now_ts) ==
    [requests |-> <<now_ts>>, violations |-> 0, banned |-> FALSE,
     bannedUntil |-> 0]

\* The step just taken served key k as a brand-new client.
ServedAsNew(k) ==
    /\ last'.allowed
    /\ last'.status = 200
    /\ last'.remaining = MAX_REQUESTS - 1
    /\ Has(clientStore', k)
    /\ clientStore'[k] = FirstRecord(last'.now)

\* How many of the timestamps of adm lie in the window (t - WINDOW_MS, t].
InWindow(adm, t) ==
    Cardinality({j \in 1..Len(adm) : adm[j] > t - WINDOW_MS /\ adm[j] <= t})

\* C1: for every key and every instant T, at most MAX_REQUESTS of the
\* evaluate calls that returned Allowed carry a timestamp in the rolling
\* window (T - WINDOW_MS, T].  With a non-decreasing clock it is enough to
\* take for T the timestamp of each admitted request.
C1_SlidingWindowBound ==
    \A k \in Keys : \A i \in 1..Len(admitted[k]) :
        InWindow(admitted[k], admitted[k][i]) <= MAX_REQUESTS

\* C2, as stated: the evaluate that activates a ban at t sets bannedUntil to
\* t + BAN_DURATION_MS, and from then on every evaluate of the key at a time
\* before t + BAN_DURATION_MS returns Banned with remaining 0 and leaves the
\* record unchanged.
C2_ActiveBan ==
    [][\A k \in Keys : EvaluateStep(k) =>
        /\ (/\ last'.status = 403
            /\ ~(Has(clientStore, k) /\ clientStore[k].banned
                 /\ last'.now < clientStore[k].bannedUntil))
           => /\ clientStore'[k].banned
              /\ clientStore'[k].bannedUntil = last'.now + BAN_DURATION_MS
        /\ (banAt[k].at >= 0 /\ last'.now < banAt[k].at + BAN_DURATION_MS)
           => /\ last'.status = 403
              /\ ~last'.allowed
              /\ last'.remaining = 0
              /\ Has(clientStore, k)
              /\ clientStore'[k] = clientStore[k]]_vars

\* C2, amended: the same, for as long as no unban, reset or resetAll has
\* acted on the key since the ban was activated.
C2_ActiveBanUntilOverride ==
    [][\A k \in Keys : EvaluateStep(k) =>
        /\ (/\ last'.status = 403
            /\ ~(Has(clientStore, k) /\ clientStore[k].banned
                 /\ last'.now < clientStore[k].bannedUntil))
           => /\ clientStore'[k].banned
              /\ clientStore'[k].bannedUntil = last'.now + BAN_DURATION_MS
        /\ (/\ banAt[k].at >= 0
            /\ ~banAt[k].overridden
            /\ last'.now < banAt[k].at + BAN_DURATION_MS)
           => /\ last'.status = 403
              /\ ~last'.allowed
              /\ last'.remaining = 0
              /\ Has(clientStore, k)
              /\ clientStore'[k] = clientStore[k]]_vars

\* A request arrived strictly after the activation of a running ban that no
\* operator lifted, and was refused.
C2_Witness ==
    /\ last.op = "evaluate"
    /\ last.status = 403
    /\ last.before.present
    /\ last.before.rec.banned
    /\ banAt[last.key].at >= 0
    /\ ~banAt[last.key].overridden
    /\ last.now > banAt[last.key].at
    /\ last.now = banAt[last.key].at + BAN_DURATION_MS - 1

\* C3: an evaluate that finds the key banned returns Banned at every time
\* before bannedUntil (bannedUntil - 1 included) and serves the key as a
\* brand-new client at every time from bannedUntil on; a sweep before
\* bannedUntil keeps the ban, a sweep from bannedUntil on evicts the record,
\* and an evaluate that finds no record serves the key as brand-new too.
C3_BanExpiry ==
    [][\A k \in Keys :
        /\ (EvaluateStep(k) /\ Has(clientStore, k) /\ clientStore[k].banned)
           => IF last'.now < clientStore[k].bannedUntil
              THEN /\ last'.status = 403
                   /\ ~last'.allowed
                   /\ last'.remaining = 0
              ELSE ServedAsNew(k)
        /\ (EvaluateStep(k) /\ ~Has(clientStore, k)) => ServedAsNew(k)
        /\ (last'.op = "sweep" /\ Has(clientStore, k) /\ clientStore[k].banned)
           => IF last'.now < clientStore[k].bannedUntil
              THEN /\ Has(clientStore', k)
                   /\ clientStore'[k].banned
                   /\ clientStore'[k].bannedUntil = clientStore[k].bannedUntil
              ELSE ~Has(clientStore', k)]_vars

\* An evaluate exactly at bannedUntil found the banned record and admitted
\* the request.
C3_Witness ==
    /\ last.op = "evaluate"
    /\ last.before.present
    /\ last.before.rec.banned
    /\ last.now = last.before.rec.bannedUntil
    /\ last.allowed

\* C4: an evaluate of a key that is not banned and whose pruned window holds
\* MAX_REQUESTS timestamps or more adds exactly 1 to violations and admits
\* nothing; below BAN_THRESHOLD it returns RateLimited with the new count,
\* and the call that reaches BAN_THRESHOLD (never passes it) returns Banned
\* with resetIn = ceil(BAN_DURATION_MS / MS_PER_SEC) and sets banned.
C4_ViolationEscalation ==
    [][\A k \in Keys :
        (EvaluateStep(k) /\ ~(Has(clientStore, k) /\ clientStore[k].banned)) =>
          LET rec == IF Has(clientStore, k) THEN clientStore[k] ELSE initRecord
              kept == SelectSeq(rec.requests,
                                LAMBDA t : t > clock' - WINDOW_MS)
              v == rec.violations + 1
          IN
          Len(kept) >= MAX_REQUESTS =>
            /\ ~last'.allowed
            /\ last'.remaining = 0
            /\ clientStore'[k].violations = v
            /\ clientStore'[k].requests = kept
            /\ IF v < BAN_THRESHOLD
               THEN /\ last'.status = 429
                    /\ last'.violations = v
                    /\ ~clientStore'[k].banned
               ELSE /\ v = BAN_THRESHOLD
                    /\ last'.status = 403
                    /\ last'.resetIn * MS_PER_SEC >= BAN_DURATION_MS
                    /\ (last'.resetIn - 1) * MS_PER_SEC < BAN_DURATION_MS
                    /\ clientStore'[k].banned]_vars

\* The excess request that reached BAN_THRESHOLD was answered Banned.
C4_Witness ==
    /\ last.op = "evaluate"
    /\ last.status = 403
    /\ ~(last.before.present /\ last.before.rec.banned)
    /\ last.before.rec.violations = BAN_THRESHOLD - 1
    /\ clientStore[last.key].banned
    /\ clientStore[last.key].violations = BAN_THRESHOLD

\* C5: counted from the evaluate that finds no record for the key, the i-th
\* evaluate of the key inside the window of the first is Allowed with
\* remaining = MAX_REQUESTS - i for i <= MAX_REQUESTS, and the next one
\* inside that window is RateLimited with remaining 0 and violations 1.
C5_QuotaCountdown ==
    \A k \in Keys :
        (last.op = "evaluate" /\ last.key = k /\ burst[k].n >= 1) =>
            /\ burst[k].n <= MAX_REQUESTS =>
                  /\ last.allowed
                  /\ last.status = 200
                  /\ last.remaining = MAX_REQUESTS - burst[k].n
            /\ burst[k].n = MAX_REQUESTS + 1 =>
                  /\ last.status = 429
                  /\ last.remaining = 0
                  /\ last.violations = 1

\* C6: an evaluate of a key at or after the instant its last denial said to
\* retry at (the denial's time plus resetIn seconds), with nothing but
\* sweeps, the clock and other keys' operations in between, is Allowed.
C6_RetryAfterSuffices ==
    [][\A k \in Keys :
        (EvaluateStep(k) /\ retryAt[k].at >= 0 /\ last'.now >= retryAt[k].at)
            => last'.allowed /\ last'.status = 200]_vars

\* A rate-limited client came back when told and was admitted.
C6_Witness ==
    /\ last.op = "evaluate"
    /\ last.allowed
    /\ retryAt[last.key].honoured
    /\ last.before.present
    /\ ~last.before.rec.banned
    /\ last.before.rec.violations >= 1
    /\ Len(last.before.rec.requests) = MAX_REQUESTS

\* The key has no record or a fresh empty one.
Blank(store, k) == ~Has(store, k) \/ store[k] = initRecord

\* C7: unban of a key that has a record, whatever the record, leaves it a
\* fresh empty record; until the next evaluate of the key the record stays
\* fresh or is removed, and that evaluate serves the key as a brand-new
\* client, with violations at 0.
C7_UnbanMakesNew ==
    [][\A k \in Keys :
        /\ (last'.op = "unban" /\ last'.key = k /\ Has(clientStore, k))
           => /\ last'.status = 200
              /\ Has(clientStore', k)
              /\ clientStore'[k] = initRecord
        /\ (Blank(clientStore, k) /\ ~EvaluateStep(k))
           => Blank(clientStore', k)
        /\ (Blank(clientStore, k) /\ EvaluateStep(k)) => ServedAsNew(k)]_vars

\* An evaluate found the fresh empty record an unban had left and admitted
\* the request (only unban leaves an empty record in the store).
C7_Witness ==
    /\ last.op = "evaluate"
    /\ last.before.present
    /\ last.before.rec = initRecord
    /\ last.allowed
    /\ last.remaining = MAX_REQUESTS - 1

\* C8: reset of a key that has a record removes the key from the store, from
\* the snapshot and from the tracked-client count; the key stays absent until
\* its next evaluate, which creates a fresh record and serves the key as a
\* brand-new client.
C8_ResetRemoves ==
    [][\A k \in Keys :
        /\ (last'.op = "reset" /\ last'.key = k /\ Has(clientStore, k))
           => /\ last'.status = 200
              /\ ~Has(clientStore', k)
              /\ k \notin DOMAIN handleAdmin(clientStore')
              /\ handleStatus(clientStore').tracked_clients
                    = handleStatus(clientStore).tracked_clients - 1
              /\ \A i \in 1..Len(keyOrder') : keyOrder'[i] # k
        /\ (~Has(clientStore, k) /\ ~EvaluateStep(k)) => ~Has(clientStore', k)
        /\ (~Has(clientStore, k) /\ EvaluateStep(k)) => ServedAsNew(k)]_vars

\* A reset deleted the record of a client that had used up its quota while
\* another client's record stayed.
C8_Witness ==
    /\ last.op = "reset"
    /\ last.status = 200
    /\ last.before.present
    /\ Len(last.before.rec.requests) = MAX_REQUESTS
    /\ ~Has(clientStore, last.key)
    /\ DOMAIN clientStore # {}

C10_ResetAllCounts ==
    [][last'.op = "resetAll" =>
        /\ last'.status = 200
        /\ last'.count = Cardinality(DOMAIN clientStore)
        /\ DOMAIN clientStore' = {}
        /\ keyOrder' = <<>>
        /\ last.op = "resetAll" => last'.count = 0]_vars

\* A resetAll removed the records of all the clients.
C10_Witness ==
    /\ last.op = "resetAll"
    /\ last.count = Cardinality(Keys)
    /\ DOMAIN clientStore = {}

\* The step just taken is a run of the cleanup callback.
SweepStep == last'.op = "sweep"

\* The timestamps of requests newer than p - WINDOW_MS, in their order.
NewerThan(requests, p) == SelectSeq(requests, LAMBDA t : t > p - WINDOW_MS)

\* What the sweep that read the clock as last'.now did to key k, when the
\* timestamps of k are pruned relative to p: the record is gone if its ban
\* had run out at last'.now or if it is idle after the pruning, and else it
\* stays with the timestamps the pruning keeps.
SweepOutcome(k, p) ==
    LET rec == clientStore[k]
        kept == NewerThan(rec.requests, p)
        evicted == \/ rec.banned /\ last'.now >= rec.bannedUntil
                   \/ Len(kept) = 0 /\ rec.violations = 0 /\ ~rec.banned
    IN
    IF evicted THEN ~Has(clientStore', k)
    ELSE Has(clientStore', k)
         /\ clientStore'[k] = [rec EXCEPT !.requests = kept]

\* The sweep adds no key and reports how many records it removed.
SweepCounts ==
    /\ DOMAIN clientStore' \subseteq DOMAIN clientStore
    /\ last'.count = Cardinality(DOMAIN clientStore \ DOMAIN clientStore')

\* C11: sweep(now) evicts exactly the records that are banned with
\* now >= bannedUntil or idle after pruning at now (no timestamp newer than
\* now - WINDOW_MS, no violations, not banned); every other record stays
\* with only its expired timestamps pruned, and the evicted count is the
\* number of records removed.
C11_SweepEvictsAtNow ==
    [][SweepStep =>
         /\ SweepCounts
         /\ \A k \in DOMAIN clientStore : SweepOutcome(k, last'.now)]_vars

\* C11, amended: the ban is tested against the callback's clock read now,
\* while the timestamps of each record are pruned relative to the clock
\* read of its own pruneOldRequests call, between now and the end of the
\* callback.
C11_SweepEvictsAtPruneTime ==
    [][SweepStep =>
         /\ SweepCounts
         /\ \A k \in DOMAIN clientStore :
              \E p \in (last'.now)..clock' : SweepOutcome(k, p)]_vars

\* A sweep removed one record and kept one that holds a request of the
\* current window, before any ban could have run out: the one removed was
\* idle.
C11_Witness ==
    /\ last.op = "sweep"
    /\ last.count = 1
    /\ last.now <= BAN_DURATION_MS
    /\ \E k \in DOMAIN clientStore :
         /\ DOMAIN clientStore = {k}
         /\ Len(clientStore[k].requests) >= 1
         /\ ~clientStore[k].banned

\* C12: evaluate is total: for every non-empty client key, in every
\* reachable state of the store and at every time, it returns exactly one
\* of Allowed (200), RateLimited (429) and Banned (403), with allowed true
\* if and only if the status is Allowed; it never fails.
C12_EvaluateTotal ==
    last.op = "evaluate" =>
        /\ last.status \in {200, 429, 403}
        /\ last.allowed <=> last.status = 200

\* Record rec, as a sweep that read the clock as t left it, is of a client
\* that called within the window the sweep pruned to, or that is serving a
\* ban at t.
LiveAt(rec, t) ==
    \/ Len(rec.requests) >= 1
    \/ rec.banned /\ t < rec.bannedUntil

\* C13: memory reclamation: the record of a client that stopped sending
\* requests is eventually removed by the periodic sweep.  A record changes
\* only when its client calls, so the sweep that finds a record whose
\* requests have all left the window and whose ban, if any, has run out
\* either removes it or no later sweep will: after every sweep, each
\* record left in the store is of a client that called within the last
\* window or is serving a ban.
C13_StaleRecordsReclaimed ==
    last.op = "sweep" =>
        \A k \in DOMAIN clientStore : LiveAt(clientStore[k], last.now)

\* Whether what an evaluate at t or later finds for a key is the same with
\* record rec as with no record: the ban of rec has run out at t, or rec
\* is idle once pruned relative to t.
Gone(rec, t) ==
    \/ rec.banned /\ t >= rec.bannedUntil
    \/ Len(NewerThan(rec.requests, t)) = 0 /\ rec.violations = 0 /\ ~rec.banned

\* What the evaluate calls at t or later can observe of the store: the
\* records that are not Gone, with the timestamps that are still in the
\* window at t.
Observable(store, t) ==
    [k \in {x \in DOMAIN store : ~Gone(store[x], t)} |->
        [store[k] EXCEPT !.requests = NewerThan(@, t)]]

\* The decision in last', as checkRateLimit returned it.
LastDecision ==
    Decision(last'.allowed, last'.status, last'.remaining, last'.resetIn,
             last'.violations)

\* C14: sweep transparency: inserting sweeps at arbitrary points of a
\* sequence of evaluate calls changes no decision.  Two stores are related
\* at t when they have the same Observable at t; the stores of the run with
\* sweeps and of the run without stay related, and related stores give the
\* same decisions, because
\*   - what is observable after a step depends only on what was
\*     observable before it,
\*   - a sweep leaves what is observable at its end unchanged, and
\*   - an evaluate returns the decision it would return on the observable
\*     part of the store alone (the store a sweep at that instant leaves),
\*     and leaves the same observable store as it would there.
C14_SweepTransparent ==
    [][/\ Observable(Observable(clientStore, clock), clock')
            = Observable(clientStore, clock')
       /\ SweepStep =>
            Observable(clientStore', clock') = Observable(clientStore, clock')
       /\ \A k \in Keys :
            EvaluateStep(k) =>
              LET out == checkRateLimit(Observable(clientStore, last'.now),
                                        k, last'.now, clock')
              IN /\ out.result = LastDecision
                 /\ Observable(out.store, clock')
                      = Observable(clientStore', clock')]_vars

\* A sweep evicted every record of a store of two: each later evaluate
\* finds no record where the run without the sweep finds one.
C14_Witness ==
    /\ last.op = "sweep"
    /\ last.count = 2
    /\ DOMAIN clientStore = {}

\* C15: every record holds at most MAX_REQUESTS timestamps, and the
\* remaining of an Allowed decision lies in 0..MAX_REQUESTS - 1.
C15_BoundedHistory ==
    /\ \A k \in DOMAIN clientStore :
         Len(clientStore[k].requests) <= MAX_REQUESTS
    /\ last.op = "evaluate" /\ last.status = 200 =>
         last.remaining \in 0..(MAX_REQUESTS - 1)

\* An evaluate was Allowed with nothing remaining: the record is full.
C15_Witness ==
    /\ last.op = "evaluate"
    /\ last.status = 200
    /\ last.remaining = 0
    /\ Has(clientStore, last.key)
    /\ Len(clientStore[last.key].requests) = MAX_REQUESTS

\* C16: in every record 0 <= violations <= BAN_THRESHOLD, the record is
\* banned if and only if violations = BAN_THRESHOLD, a banned record has a
\* bannedUntil strictly later than the time its ban was activated, and a
\* record that is not banned has bannedUntil = 0.  (banAt forgets the
\* activation once the ban has run out.)
C16_BanConsistency ==
    \A k \in DOMAIN clientStore :
      LET rec == clientStore[k] IN
      /\ rec.violations \in 0..BAN_THRESHOLD
      /\ rec.banned <=> rec.violations = BAN_THRESHOLD
      /\ ~rec.banned => rec.bannedUntil = 0
      /\ rec.banned =>
           IF banAt[k].at >= 0
           THEN ~banAt[k].overridden /\ rec.bannedUntil > banAt[k].at
           ELSE clock >= rec.bannedUntil

\* One record is serving a ban whose activation is remembered, another one
\* has a violation and is not banned.
C16_Witness ==
    \E k \in DOMAIN clientStore : \E x \in DOMAIN clientStore :
      /\ clientStore[k].banned
      /\ banAt[k].at >= 0
      /\ clock < clientStore[k].bannedUntil
      /\ ~clientStore[x].banned
      /\ clientStore[x].violations >= 1

\* requests is in non-decreasing order.
Sorted(requests) ==
    \A i \in 1..Len(requests) : \A j \in i..Len(requests) :
      requests[i] <= requests[j]

\* The timestamps evaluate prunes: those of the record it found, unless it
\* found none or replaced a record whose ban had run out.
PruneBase(before) ==
    IF before.present /\ ~before.rec.banned THEN before.rec.requests
    ELSE <<>>

\* C17: a pruning pass at time p removes exactly the timestamps
\* t <= p - WINDOW_MS and keeps the others in their order; requests is in
\* non-decreasing order in every reachable state; and at the end of every
\* evaluate at now that reached the pruning, every stored timestamp t of
\* the key has now - WINDOW_MS < t <= now.
C17_PruneAndOrder ==
    [][/\ \A k \in DOMAIN clientStore' : Sorted(clientStore'[k].requests)
       /\ \A k \in Keys :
            EvaluateStep(k) /\ ~BanActive(last'.before.rec, last'.now) =>
              LET kept == SelectSeq(PruneBase(last'.before),
                                    LAMBDA t : ~(t <= clock' - WINDOW_MS))
                  left == clientStore'[k].requests
              IN /\ left = IF last'.allowed THEN Append(kept, last'.now)
                           ELSE kept
                 /\ \A i \in 1..Len(left) :
                      /\ last'.now - WINDOW_MS < left[i]
                      /\ left[i] <= last'.now]_vars

\* An evaluate found two timestamps, pruned the older one, kept the newer
\* one and appended its own.
C17_Witness ==
    /\ last.op = "evaluate"
    /\ last.allowed
    /\ last.before.present
    /\ Len(last.before.rec.requests) = 2
    /\ last.before.rec.requests[1] < last.before.rec.requests[2]
    /\ Has(clientStore, last.key)
    /\ clientStore[last.key].requests
         = <<last.before.rec.requests[2], last.now>>

\* An evaluate of key k leaves the other keys alone: it adds none, removes
\* none and changes no record of theirs.
OthersUntouched(k) ==
    \A x \in (DOMAIN clientStore \cup DOMAIN clientStore') \ {k} :
      /\ Has(clientStore, x)
      /\ Has(clientStore', x)
      /\ clientStore'[x] = clientStore[x]

\* A denied evaluate of k appended no timestamp: the requests of k are those
\* of before, pruned or not.
NothingAppended(k) ==
    clientStore'[k].requests
      \in {PruneBase(last'.before), NewerThan(PruneBase(last'.before), clock'),
           last'.before.rec.requests}

\* An Allowed evaluate of k appended exactly its own timestamp, and the
\* violations, banned and bannedUntil of k are those of record rec.
OneAppended(k, rec) ==
    /\ clientStore'[k].requests
         = Append(NewerThan(PruneBase(last'.before), clock'), last'.now)
    /\ clientStore'[k].violations = rec.violations
    /\ clientStore'[k].banned = rec.banned
    /\ clientStore'[k].bannedUntil = rec.bannedUntil

\* C18: evaluate(k, now) leaves the record of every other key unchanged and
\* adds or removes no other key; a denied decision appends no timestamp; an
\* Allowed decision appends exactly one timestamp, equal to now, and leaves
\* violations, banned and bannedUntil of the record unchanged.
C18_Frame ==
    [][\A k \in Keys :
         EvaluateStep(k) =>
           /\ OthersUntouched(k)
           /\ Has(clientStore', k)
           /\ ~last'.allowed => NothingAppended(k)
           /\ last'.allowed => OneAppended(k, last'.before.rec)]_vars

\* C18, amended: an Allowed decision leaves violations, banned and
\* bannedUntil as they were unless it found a ban that had run out, in
\* which case they are those of a fresh record.
C18_FrameAfterExpiry ==
    [][\A k \in Keys :
         EvaluateStep(k) =>
           /\ OthersUntouched(k)
           /\ Has(clientStore', k)
           /\ ~last'.allowed => NothingAppended(k)
           /\ last'.allowed =>
                OneAppended(k, IF last'.before.rec.banned THEN initRecord
                               ELSE last'.before.rec)]_vars

\* An evaluate found a ban that had run out and was Allowed, while the
\* store held the record of another key.
C18_Witness ==
    /\ last.op = "evaluate"
    /\ last.allowed
    /\ last.before.present
    /\ last.before.rec.banned
    /\ Cardinality(DOMAIN clientStore) = 2

\* The step just taken is one of those that reset the violations of key k,
\* whose record was rec: the evaluate of k or the sweep that found the ban
\* of rec run out, an unban or a reset of k, or a resetAll.
ResetsViolations(k, rec) ==
    \/ EvaluateStep(k) /\ rec.banned /\ last'.now >= rec.bannedUntil
    \/ SweepStep /\ rec.banned /\ last'.now >= rec.bannedUntil
    \/ last'.op = "unban" /\ last'.key = k
    \/ last'.op = "reset" /\ last'.key = k
    \/ last'.op = "resetAll"

\* C19: violations do not decay.  Neither evaluate nor sweep decreases the
\* violations of a record that is not banned, and a sweep never evicts such
\* a record while it has a violation; the violations of a record come back
\* to 0 (or the record goes) only through the ban-expiry reinitialization
\* of evaluate, the sweep eviction of an expired ban, unban, reset and
\* resetAll.
C19_NoDecay ==
    [][\A k \in DOMAIN clientStore :
         LET rec == clientStore[k] IN
         /\ ~rec.banned /\ last'.op \in {"evaluate", "sweep"} =>
              /\ rec.violations >= 1 => Has(clientStore', k)
              /\ Has(clientStore', k) =>
                   clientStore'[k].violations >= rec.violations
         /\ /\ rec.violations >= 1
            /\ \/ ~Has(clientStore', k)
               \/ clientStore'[k].violations < rec.violations
            => ResetsViolations(k, rec)]_vars

\* A sweep left a record that has a violation, is not banned and holds no
\* request of the window.
C19_Witness ==
    /\ last.op = "sweep"
    /\ \E k \in DOMAIN clientStore :
         /\ ~clientStore[k].banned
         /\ clientStore[k].violations >= 1
         /\ Len(clientStore[k].requests) = 0

====
